---- MODULE Spec2Model ----
(***************************************************************************)
(* Model of src/streamlit_app.py: the sales dashboard script.              *)
(*                                                                         *)
(* A DataFrame is a sequence of rows [idx, Date, Sales, Region]; idx is    *)
(* the pandas RangeIndex label, Date is a day number (Epoch stands for     *)
(* 2024-01-01, the frequency is one day).  A mean is the exact quotient    *)
(* [num, den], or NaN for the mean of an empty Series.                     *)
(*                                                                         *)
(* Three specifications share the variables:                               *)
(*   Spec      the Streamlit process: first run, then one full re-run of   *)
(*             the script per widget interaction or new session;           *)
(*   SpecGen   one call of generate_sales_data(num_days);                  *)
(*   SpecPipe  lines 78-116 (filter, metrics, aggregates) applied to an    *)
(*             arbitrary date-ascending frame and arbitrary criteria.      *)
(***************************************************************************)
EXTENDS Integers, Sequences, FiniteSets, TLC

VARIABLES pc, raised, cache, num_days, df, first_df,
          start_date, end_date, selected_regions,
          filtered_df, total_sales, avg_daily_sales, num_transactions,
          daily_sales_trend, sales_by_region

vars == <<pc, raised, cache, num_days, df, first_df,
          start_date, end_date, selected_regions,
          filtered_df, total_sales, avg_daily_sales, num_transactions,
          daily_sales_trend, sales_by_region>>

---------------------------------------------------------------------------
(* Bounds *)

\* generate_sales_data(200) at line 36, scaled down
AppDays == 2
\* largest num_days tried in SpecGen
MaxDays == 3
\* smallest num_days tried in SpecGen is -MinDaysBelow
MinDaysBelow == 2
\* longest frame and last day number of SpecPipe
MaxLen == 3
MaxDate == 1

---------------------------------------------------------------------------
(* Program constants *)

Epoch == 0
SalesLow == 100
SalesHigh == 1000
REGIONS == {"North", "South", "East", "West"}
\* the order groupby(sort=True) gives the region strings
RegionSorted == <<"East", "North", "South", "West">>
\* float NaN, the value pandas gives the mean of nothing (0/0)
NaN == [nan |-> TRUE, num |-> 0, den |-> 0]

---------------------------------------------------------------------------
\* the upper bound taken as inclusive, as random.randint does
RandIntInclusive(low, high) == {low, high}

\* np.random.randint(low, high): an integer of [low, high); the two extremes
\* stand for the interval

RandInt(low, high) == {low, high - 1}

\* pd.date_range(start, periods=n, freq="D")
DateRange(start, n) == [i \in 1..n |-> start + (i - 1)]

\* all frames generate_sales_data(n) can build for n >= 0 (lines 25-32)
Frames(n) ==
    LET dates == DateRange(Epoch, n)
    IN  { [i \in 1..n |-> [idx |-> i - 1, Date |-> dates[i],
                           Sales |-> sr[i][1], Region |-> sr[i][2]]] :
            sr \in [1..n -> RandInt(SalesLow, SalesHigh) \X REGIONS] }

\* the undecorated body: numpy rejects a negative size with ValueError
GenerateOutcomes(n) ==
    IF n < 0
    THEN {[raised |-> "ValueError", data |-> <<>>]}
    ELSE {[raised |-> "none", data |-> d] : d \in Frames(n)}

\* st.cache_data ignored: every call draws again
UncachedGenerate(c, n) == GenerateOutcomes(n)

\* @st.cache_data: a hit returns the stored frame, a miss runs the body
CachedGenerate(c, n) ==
    IF n \in DOMAIN c
    THEN {[raised |-> "none", data |-> c[n]]}
    ELSE GenerateOutcomes(n)

\* the cache after a call: only a returned value is stored
CacheAfter(c, n, out) ==
    IF out.raised = "none" /\ n \notin DOMAIN c
    THEN [k \in DOMAIN c \cup {n} |-> IF k = n THEN out.data ELSE c[k]]
    ELSE c

---------------------------------------------------------------------------
(* Lines 78-116: filter, metrics, aggregates *)

\* the end bound compared with < instead of <=
ApplyFiltersExclusiveEnd(d, s, e, R) ==
    SelectSeq(d, LAMBDA r : r.Date >= s /\ r.Date < e /\ r.Region \in R)

\* the selected rows returned newest first
ApplyFiltersReversed(d, s, e, R) ==
    LET v == SelectSeq(d, LAMBDA r : r.Date >= s /\ r.Date <= e /\ r.Region \in R)
    IN  [i \in 1..Len(v) |-> v[Len(v) + 1 - i]]

\* df[(Date >= start) & (Date <= end) & Region.isin(selected)]: a boolean
\* mask keeps the rows, their index labels and their order
ApplyFilters(d, s, e, R) ==
    SelectSeq(d, LAMBDA r : r.Date >= s /\ r.Date <= e /\ r.Region \in R)

\* Series.sum() of the Sales column; 0 for an empty Series
RECURSIVE SumSales(_)
SumSales(rows) ==
    IF rows = <<>> THEN 0 ELSE Head(rows).Sales + SumSales(Tail(rows))

\* Series.mean(): NaN for an empty Series, else sum / count
Mean(rows) ==
    IF Len(rows) = 0
    THEN NaN
    ELSE [nan |-> FALSE, num |-> SumSales(rows), den |-> Len(rows)]

\* the ascending order groupby(sort=True) gives the Date keys
RECURSIVE SortAsc(_)
SortAsc(S) ==
    IF S = {} THEN <<>>
    ELSE LET m == CHOOSE x \in S : \A y \in S : x <= y
         IN  <<m>> \o SortAsc(S \ {m})

\* groupby keeps the last value of each date instead of summing
DailySalesTrendLast(view) ==
    LET keys == SortAsc({view[i].Date : i \in DOMAIN view})
    IN  [k \in 1..Len(keys) |->
            LET g == SelectSeq(view, LAMBDA r : r.Date = keys[k])
            IN  [Date |-> keys[k], Sales |-> g[Len(g)].Sales]]

\* filtered_df.groupby('Date')['Sales'].sum().reset_index()
DailySalesTrend(view) ==
    LET keys == SortAsc({view[i].Date : i \in DOMAIN view})
    IN  [k \in 1..Len(keys) |->
            [Date |-> keys[k],
             Sales |-> SumSales(SelectSeq(view, LAMBDA r : r.Date = keys[k]))]]

\* a categorical Region column: a row for every region, 0 where none matches
SalesByRegionZeroFilled(view) ==
    [k \in 1..Len(RegionSorted) |->
        [Region |-> RegionSorted[k],
         Sales |-> SumSales(SelectSeq(view, LAMBDA r : r.Region = RegionSorted[k]))]]

\* filtered_df.groupby('Region')['Sales'].sum().reset_index()
SalesByRegion(view) ==
    LET present == {view[i].Region : i \in DOMAIN view}
        keys == SelectSeq(RegionSorted, LAMBDA g : g \in present)
    IN  [k \in 1..Len(keys) |->
            [Region |-> keys[k],
             Sales |-> SumSales(SelectSeq(view, LAMBDA r : r.Region = keys[k]))]]

\* the mean taken over the records instead of over the per-date sums
AvgPerRecord(view) == Mean(view)

\* filtered_df.groupby('Date')['Sales'].sum().mean()
AvgDailySales(view) == Mean(DailySalesTrend(view))

\* lines 78-116 for frame d and the widget values s, e, R
Show(d, s, e, R) ==
    LET v == ApplyFilters(d, s, e, R)
    IN  /\ filtered_df' = v
        /\ total_sales' = SumSales(v)
        /\ avg_daily_sales' = AvgDailySales(v)
        /\ num_transactions' = Len(v)
        /\ daily_sales_trend' = DailySalesTrend(v)
        /\ sales_by_region' = SalesByRegion(v)

\* nothing displayed yet
Blank ==
    /\ filtered_df = <<>>
    /\ total_sales = 0
    /\ avg_daily_sales = NaN
    /\ num_transactions = 0
    /\ daily_sales_trend = <<>>
    /\ sales_by_region = <<>>

---------------------------------------------------------------------------
(* The Streamlit process *)

\* df['Date'].min(), df['Date'].max(), df['Region'].unique()
MinDate(d) == CHOOSE x \in {d[i].Date : i \in DOMAIN d} :
                  \A i \in DOMAIN d : x <= d[i].Date
MaxDateOf(d) == CHOOSE x \in {d[i].Date : i \in DOMAIN d} :
                  \A i \in DOMAIN d : x >= d[i].Date
AllRegions(d) == {d[i].Region : i \in DOMAIN d}

\* one run of the script, lines 36-118; defaults = the widgets hold no
\* value of the session yet (lines 59 and 73), else they return s, e, R
Run(defaults, s, e, R) ==
    \E out \in CachedGenerate(cache, AppDays) :
        /\ out.raised = "none"
        /\ cache' = CacheAfter(cache, AppDays, out)
        /\ df' = out.data
        /\ start_date' = (IF defaults THEN MinDate(out.data) ELSE s)
        /\ end_date' = (IF defaults THEN MaxDateOf(out.data) ELSE e)
        /\ selected_regions' = (IF defaults THEN AllRegions(out.data) ELSE R)
        /\ Show(out.data, start_date', end_date', selected_regions')
        /\ pc' = "shown"
        /\ UNCHANGED <<raised, num_days>>

Init ==
    /\ pc = "start"
    /\ raised = "none"
    /\ cache = <<>>
    /\ num_days = AppDays
    /\ df = <<>>
    /\ first_df = <<>>
    /\ start_date = Epoch
    /\ end_date = Epoch
    /\ selected_regions = {}
    /\ Blank

\* the first run of the process: cache miss, default widget values
FirstRun ==
    /\ pc = "start"
    /\ Run(TRUE, Epoch, Epoch, {})
    /\ first_df' = df'

\* the user moves the date slider (a range: low <= high), the script re-runs
SliderChange ==
    /\ pc = "shown"
    /\ \E s, e \in MinDate(df)..MaxDateOf(df) :
          /\ s <= e
          /\ Run(FALSE, s, e, selected_regions)
    /\ UNCHANGED first_df

\* the user changes the region multiselect, the script re-runs
MultiselectChange ==
    /\ pc = "shown"
    /\ \E R \in SUBSET AllRegions(df) :
          Run(FALSE, start_date, end_date, R)
    /\ UNCHANGED first_df

\* a new browser session of the same process: widgets at their defaults
NewSession ==
    /\ pc = "shown"
    /\ Run(TRUE, Epoch, Epoch, {})
    /\ UNCHANGED first_df

Next == FirstRun \/ SliderChange \/ MultiselectChange \/ NewSession

Spec == Init /\ [][Next]_vars

---------------------------------------------------------------------------
(* One call of generate_sales_data(num_days) *)

InitGen ==
    /\ pc = "call"
    /\ raised = "none"
    /\ cache = <<>>
    /\ num_days \in (0 - MinDaysBelow)..MaxDays
    /\ df = <<>>
    /\ first_df = <<>>
    /\ start_date = Epoch
    /\ end_date = Epoch
    /\ selected_regions = {}
    /\ Blank

Generate ==
    /\ pc = "call"
    /\ \E out \in CachedGenerate(cache, num_days) :
          /\ cache' = CacheAfter(cache, num_days, out)
          /\ raised' = out.raised
          /\ df' = out.data
          /\ pc' = (IF out.raised = "none" THEN "returned" ELSE "raised")
    /\ UNCHANGED <<num_days, first_df, start_date, end_date, selected_regions,
                   filtered_df, total_sales, avg_daily_sales, num_transactions,
                   daily_sales_trend, sales_by_region>>

NextGen == Generate

SpecGen == InitGen /\ [][NextGen]_vars

---------------------------------------------------------------------------
(* Lines 78-116 on an arbitrary frame and arbitrary criteria *)

PipeRegions == {"North", "South"}
PipeSelectable == {"North", "South", "East"}
PipeDates == Epoch..(Epoch + MaxDate)

\* frames of at most MaxLen rows, date-ascending, several rows per day allowed
PipeFrames ==
    UNION { { [i \in 1..n |-> [idx |-> i - 1, Date |-> t[i][1],
                               Sales |-> t[i][2], Region |-> t[i][3]]] :
                t \in { u \in [1..n -> PipeDates \X RandInt(SalesLow, SalesHigh)
                                         \X PipeRegions] :
                          \A i \in 1..(n - 1) : u[i][1] <= u[i + 1][1] } } :
            n \in 0..MaxLen }

InitPipe ==
    /\ pc = "input"
    /\ raised = "none"
    /\ cache = <<>>
    /\ num_days = 0
    /\ df \in PipeFrames
    /\ first_df = df
    /\ start_date \in PipeDates
    /\ end_date \in PipeDates
    /\ selected_regions \in SUBSET PipeSelectable
    /\ Blank

Render ==
    /\ pc = "input"
    /\ Show(df, start_date, end_date, selected_regions)
    /\ pc' = "rendered"
    /\ UNCHANGED <<raised, cache, num_days, df, first_df,
                   start_date, end_date, selected_regions>>

NextPipe == Render

SpecPipe == InitPipe /\ [][NextPipe]_vars

---------------------------------------------------------------------------
(* Properties *)

\* the sum of the Sales of the rows of v on day t / of region g
SumOnDate(v, t) ==
    LET S[k \in 0..Len(v)] ==
            IF k = 0 THEN 0
            ELSE S[k - 1] + (IF v[k].Date = t THEN v[k].Sales ELSE 0)
    IN  S[Len(v)]

SumOfRegion(v, g) ==
    LET S[k \in 0..Len(v)] ==
            IF k = 0 THEN 0
            ELSE S[k - 1] + (IF v[k].Region = g THEN v[k].Sales ELSE 0)
    IN  S[Len(v)]

SumOfColumn(v) ==
    LET S[k \in 0..Len(v)] == IF k = 0 THEN 0 ELSE S[k - 1] + v[k].Sales
    IN  S[Len(v)]

DistinctDates(v) == {v[i].Date : i \in DOMAIN v}

\* every output is the empty result with metrics 0, 0, 0
AllEmptyAndZero ==
    /\ raised = "none"
    /\ filtered_df = <<>>
    /\ total_sales = 0
    /\ ~avg_daily_sales.nan /\ avg_daily_sales.num = 0
    /\ num_transactions = 0
    /\ daily_sales_trend = <<>>
    /\ sales_by_region = <<>>

\* C1: the filtered view holds a record of the dataset if and only if its
\* date lies in [start_date, end_date], both bounds included, and its region
\* is one of selected_regions; the view holds nothing else.
C1_FilterIffPredicate ==
    pc = "rendered" =>
        /\ \A i \in DOMAIN df :
              (\E j \in DOMAIN filtered_df : filtered_df[j] = df[i])
              <=> /\ start_date <= df[i].Date
                  /\ df[i].Date <= end_date
                  /\ df[i].Region \in selected_regions
        /\ \A j \in DOMAIN filtered_df : \E i \in DOMAIN df : df[i] = filtered_df[j]

\* a view with a record on each bound of the range, one record left out for
\* its date and one for its region
C1_Witness ==
    /\ pc = "rendered"
    /\ \E j \in DOMAIN filtered_df : filtered_df[j].Date = start_date
    /\ \E j \in DOMAIN filtered_df : filtered_df[j].Date = end_date
    /\ \E i \in DOMAIN df : df[i].Date > end_date
    /\ \E i \in DOMAIN df : /\ df[i].Date >= start_date /\ df[i].Date <= end_date
                            /\ df[i].Region \notin selected_regions

\* C2: with no region selected nothing raises, the view is empty, the three
\* metrics are 0, 0 and 0 and both aggregates are empty.
C2_EmptySelectionAllZero ==
    (pc \in {"shown", "rendered"} /\ selected_regions = {}) => AllEmptyAndZero

C4_SumLaw ==
    pc = "rendered" => SumOfColumn(daily_sales_trend) = total_sales

\* a view in which several records share a date
C4_Witness ==
    /\ pc = "rendered"
    /\ Len(daily_sales_trend) >= 1
    /\ Len(filtered_df) > Len(daily_sales_trend)

\* C5: with at least one distinct date in the view, average_daily_sales times
\* the number of distinct dates is total_sales; with none it is 0 or the
\* no-data value, and computing it raises nothing.
C5_AvgOverDistinctDates ==
    pc = "rendered" =>
        LET nd == Cardinality(DistinctDates(filtered_df))
        IN  /\ raised = "none"
            /\ nd >= 1 => /\ ~avg_daily_sales.nan
                          /\ avg_daily_sales.den > 0
                          /\ avg_daily_sales.num * nd = total_sales * avg_daily_sales.den
            /\ nd = 0 => \/ avg_daily_sales.nan
                         \/ avg_daily_sales.den > 0 /\ avg_daily_sales.num = 0

\* a view with more records than distinct dates
C5_Witness ==
    /\ pc = "rendered"
    /\ Cardinality(DistinctDates(filtered_df)) >= 1
    /\ Len(filtered_df) > Cardinality(DistinctDates(filtered_df))

\* C6: for num_days > 0 the call returns num_days rows, row i dated the
\* i-th day from the epoch, every Sales an integer of [100, 1000) and every
\* Region one of the four.
C6_GenerateShape ==
    (pc # "call" /\ num_days > 0) =>
        /\ pc = "returned"
        /\ Len(df) = num_days
        /\ \A i \in DOMAIN df :
              /\ df[i].Date = Epoch + (i - 1)
              /\ df[i].Sales \in Int
              /\ SalesLow <= df[i].Sales /\ df[i].Sales < SalesHigh
              /\ df[i].Region \in REGIONS

\* a returned frame of several days holding both extremes of the sales range
C6_Witness ==
    /\ pc = "returned"
    /\ num_days >= 2
    /\ Len(df) = num_days
    /\ \E i \in DOMAIN df : df[i].Sales = SalesLow
    /\ \E i \in DOMAIN df : df[i].Sales = SalesHigh - 1

\* C7: the call raises and returns no dataset when num_days <= 0, and never
\* raises when num_days > 0.
C7_NonPositiveRaises ==
    pc # "call" =>
        /\ num_days <= 0 => (pc = "raised" /\ raised # "none" /\ df = <<>>)
        /\ num_days > 0 => (pc = "returned" /\ raised = "none")

\* C8: the view is a subsequence of the dataset (its rows are dataset rows,
\* in the dataset's order, none twice) and the dataset is as it was given.
C8_ViewIsSubsequence ==
    pc = "rendered" =>
        /\ df = first_df
        /\ \A j \in DOMAIN filtered_df : \E i \in DOMAIN df : df[i] = filtered_df[j]
        /\ \A j, k \in DOMAIN filtered_df :
              j < k => /\ filtered_df[j].idx < filtered_df[k].idx
                       /\ filtered_df[j].Date <= filtered_df[k].Date

\* a view of several records that leaves a dataset record out
C8_Witness ==
    /\ pc = "rendered"
    /\ Len(filtered_df) >= 2
    /\ Len(filtered_df) < Len(df)

\* C9: the date aggregate has one row per distinct date of the view, ascending
\* by date, the region aggregate one row per distinct region of the view; no
\* other key has a row, and a row's total is the sum of the view's records
\* with its key.
C9_OneRowPerPresentKey ==
    pc = "rendered" =>
        /\ \A k, l \in DOMAIN daily_sales_trend :
              k < l => daily_sales_trend[k].Date < daily_sales_trend[l].Date
        /\ {daily_sales_trend[k].Date : k \in DOMAIN daily_sales_trend}
              = DistinctDates(filtered_df)
        /\ \A k \in DOMAIN daily_sales_trend :
              daily_sales_trend[k].Sales
                 = SumOnDate(filtered_df, daily_sales_trend[k].Date)
        /\ \A k, l \in DOMAIN sales_by_region :
              k # l => sales_by_region[k].Region # sales_by_region[l].Region
        /\ {sales_by_region[k].Region : k \in DOMAIN sales_by_region}
              = {filtered_df[i].Region : i \in DOMAIN filtered_df}
        /\ \A k \in DOMAIN sales_by_region :
              sales_by_region[k].Sales
                 = SumOfRegion(filtered_df, sales_by_region[k].Region)

\* a view with records, while a day of the requested range and a selected
\* region match no record
C9_Witness ==
    /\ pc = "rendered"
    /\ Len(filtered_df) >= 2
    /\ \E t \in start_date..end_date : t \notin DistinctDates(filtered_df)
    /\ \E g \in selected_regions : \A i \in DOMAIN filtered_df : filtered_df[i].Region # g

\* C10: after any interactions the dataset is the one of the first run, and
\* what is shown is the pipeline applied to it with the current criteria.
C10_LatestCriteriaOnly ==
    pc = "shown" =>
        /\ df = first_df
        /\ AppDays \in DOMAIN cache /\ cache[AppDays] = first_df
        /\ LET v == ApplyFilters(first_df, start_date, end_date, selected_regions)
           IN  /\ filtered_df = v
               /\ total_sales = SumOfColumn(v)
               /\ avg_daily_sales = AvgDailySales(v)
               /\ num_transactions = Len(v)
               /\ daily_sales_trend = DailySalesTrend(v)
               /\ sales_by_region = SalesByRegion(v)

\* both widgets moved away from their defaults
C10_Witness ==
    /\ pc = "shown"
    /\ df = first_df
    /\ start_date > MinDate(df)
    /\ selected_regions # AllRegions(df)
    /\ selected_regions # {}
    /\ Len(filtered_df) >= 1

====
